---------------------------- MODULE Spec2Model ----------------------------
(***************************************************************************)
(* Model of the mode-disentanglement trainer (DisentTrainerNoSSM) and of   *)
(* the inference-time action sampler (ActionSamplerNoSSM).                 *)
(*                                                                         *)
(* Spec / FairSpec : one trainer instance: construction, run_training      *)
(*                   (rollout sampling, training loop, model save).        *)
(* SamplerSpec     : one action sampler instance: reset, set_mode_next,    *)
(*                   update_mode_to_next, __call__.                        *)
(***************************************************************************)
EXTENDS Integers, Sequences, FiniteSets, TLC

VARIABLES
    \* ---- trainer configuration (constructor arguments) ----
    num_skills, min_steps_sampling, num_sequences, train_steps,
    mode_dim, log_interval, memory_size,
    \* ---- trainer state ----
    pc,             \* position of the trainer's control flow
    runs,           \* number of run_training invocations started
    steps,          \* self.steps: per-skill step counters
    learn_steps,    \* self.learn_steps
    episodes,       \* self.episodes
    skill,          \* local `skill` of _sample_sequences
    episode_steps,  \* local `episode_steps` of _sample_equal_skill_dist
    next_obs,       \* local `next_obs` of _sample_equal_skill_dist
    done,           \* local `done` of _sample_equal_skill_dist
    train_iter,     \* loop index of _train
    err,            \* the exception that ended the run ("none" if none)
    \* ---- collaborators ----
    env_obs,        \* the observation the environment returned last
    mem_len,        \* Memory: length of the in-progress sequence buffer
    mem_n,          \* Memory: number of stored sequences
    \* ---- effects, counted ----
    policy_obs,     \* the observation handed to skill_policy.get_action last
    env_at_choice,  \* the environment's current observation at that moment
    batch_samples,  \* successful memory.sample_sequence calls
    optim_steps,    \* update_params calls
    scalar_sets,    \* groups of add_scalar calls (one group per logging step)
    warnings,       \* warnings.warn calls of _plot_mode_map
    fig_attempts,   \* writer.add_figure calls
    figures,        \* writer.add_figure calls that were given a figure
    saves,          \* torch.save calls of _save_models
    \* ---- action sampler ----
    s_device,       \* self.device
    s_mode,         \* self._mode
    s_mode_next,    \* self._mode_next
    s_op,           \* the last operation called on the sampler
    s_requested,    \* the mode most recently handed to reset / set_mode_next
    s_state_rep,    \* the argument of the last __call__
    s_result        \* what the last __call__ produced

trainer_vars ==
    << num_skills, min_steps_sampling, num_sequences, train_steps,
       mode_dim, log_interval, memory_size,
       pc, runs, steps, learn_steps, episodes, skill, episode_steps,
       next_obs, done, train_iter, err, env_obs, mem_len, mem_n,
       policy_obs, env_at_choice, batch_samples, optim_steps, scalar_sets,
       warnings, fig_attempts, figures, saves >>

sampler_vars ==
    << s_device, s_mode, s_mode_next, s_op, s_requested, s_state_rep,
       s_result >>

vars == << trainer_vars, sampler_vars >>

-----------------------------------------------------------------------------
(* Bounds of the model.                                                    *)

MaxSkills == 2
MaxMinSteps == 4
MaxSeqLen == 2
MaxTrainSteps == 3
MaxLogInterval == 2
MaxMemorySize == 1
MaxRuns == 2
NumModes == 3
NumStateReps == 2

(* Program constants.                                                      *)

plot_dim == 2
PaletteSize == 10

\* Python's None, in a tensor-valued slot.
None == [val |-> 0, dev |-> "-"]

\* No result: nothing was called yet.
NoResult == [kind |-> "none", mode |-> None, rep |-> 0]

Min(a, b) == IF a <= b THEN a ELSE b

-----------------------------------------------------------------------------
(* The configurations a trainer is constructed with.                       *)

SkillCounts == (1 .. MaxSkills) \cup {PaletteSize + 1}
ModeDims == {plot_dim, plot_dim + 1}
\* The observations the environment returns.  The trainer never inspects an
\* observation, it only passes it on: two distinct values tell a current
\* observation from a stale one.
Observations == {"obs_a", "obs_b"}

Skills == 0 .. (num_skills - 1)

RECURSIVE SumUpTo(_, _)
SumUpTo(f, n) == IF n = 0 THEN 0 ELSE f[n - 1] + SumUpTo(f, n - 1)

\* np.sum(step_cnt)
np_sum(cnt) == SumUpTo(cnt, num_skills)

\* np.max(self.steps)
np_max(cnt) == CHOOSE m \in {cnt[s] : s \in Skills} :
                   \A s \in Skills : cnt[s] <= m

np_min(cnt) == CHOOSE m \in {cnt[s] : s \in Skills} :
                   \A s \in Skills : m <= cnt[s]


\* No observation: the value of an observation slot nothing was written to.
NoObs == "no_obs"

-----------------------------------------------------------------------------
(* Replay memory (MyLazyMemory), as its contract describes it.             *)

\* set_initial_state(obs): begins a new trajectory buffer.
mem_set_initial_state == 0

\* append(...): the length of the in-progress buffer after the append.
mem_append(len) == len + 1

\* append(...) -> sequence_completed: the buffer reached num_sequences.
mem_seq_pushed(len) == mem_append(len) >= num_sequences

\* The stored set after a completed sequence is committed (oldest evicted).
mem_commit(n) == Min(n + 1, memory_size)

\* sample_sequence(batch_size) draws from the stored set; it fails on an
\* empty one.
mem_can_sample(n) == n >= 1

-----------------------------------------------------------------------------
(* Trainer: construction.                                                  *)

SamplerIdle ==
    /\ s_device = "cpu"
    /\ s_mode = None
    /\ s_mode_next = None
    /\ s_op = "init"
    /\ s_requested = None
    /\ s_state_rep = 0
    /\ s_result = NoResult

Init ==
    /\ num_skills \in SkillCounts
    /\ min_steps_sampling \in 0 .. MaxMinSteps
    /\ num_sequences \in 1 .. MaxSeqLen
    /\ train_steps \in 0 .. MaxTrainSteps
    /\ mode_dim \in ModeDims
    /\ log_interval \in 0 .. MaxLogInterval
    /\ memory_size \in 1 .. MaxMemorySize
    /\ pc = "init"
    /\ runs = 0
    /\ steps = [s \in Skills |-> 0]
    /\ learn_steps = 0
    /\ episodes = 0
    /\ skill = 0
    /\ episode_steps = 0
    /\ next_obs = NoObs
    /\ done = FALSE
    /\ train_iter = 0
    /\ err = "none"
    /\ env_obs = NoObs
    /\ mem_len = 0
    /\ mem_n = 0
    /\ policy_obs = NoObs
    /\ env_at_choice = NoObs
    /\ batch_samples = 0
    /\ optim_steps = 0
    /\ scalar_sets = 0
    /\ warnings = 0
    /\ fig_attempts = 0
    /\ figures = 0
    /\ saves = 0
    /\ SamplerIdle

config_vars ==
    << num_skills, min_steps_sampling, num_sequences, train_steps,
       mode_dim, log_interval, memory_size >>

rollout_vars ==
    << episode_steps, next_obs, done, env_obs, mem_len, mem_n,
       policy_obs, env_at_choice >>

train_vars ==
    << learn_steps, train_iter, batch_samples, optim_steps, scalar_sets,
       warnings, fig_attempts, figures >>

-----------------------------------------------------------------------------
(* Trainer: the sampling phase.                                            *)

\* Mutant: the loop test lets a rollout start at the threshold.
sampling_continues_at_threshold(cnt) == np_sum(cnt) <= min_steps_sampling

\* while np.sum(step_cnt) < min_steps
sampling_continues(cnt) == np_sum(cnt) < min_steps_sampling

\* while self.steps[skill] <= np.max(self.steps)
rollout_continues(cnt, s) == cnt[s] <= np_max(cnt)

\* Mutant: the skill is never advanced.
next_skill_stuck(s) == s

\* skill = min(skill + 1, (skill + 1) % self.num_skills)
next_skill(s) == Min(s + 1, (s + 1) % num_skills)

\* run_training is called: _sample_sequences starts with skill = 0.
run_training ==
    /\ pc \in {"init", "saved"}
    /\ runs < MaxRuns
    /\ runs' = runs + 1
    /\ skill' = 0
    /\ pc' = "sampling"
    /\ UNCHANGED << config_vars, steps, episodes, err, rollout_vars,
                    train_vars, saves, sampler_vars >>

\* The outer loop's test holds: _sample_equal_skill_dist is entered, up to
\* its own loop.
sample_equal_skill_dist_enter ==
    /\ pc = "sampling"
    /\ sampling_continues(steps)
    /\ \E obs \in Observations :
          /\ env_obs' = obs
          /\ next_obs' = obs
    /\ episode_steps' = 0
    /\ mem_len' = mem_set_initial_state
    /\ done' = FALSE
    /\ pc' = "rollout"
    /\ UNCHANGED << config_vars, runs, steps, episodes, skill, err, mem_n,
                    policy_obs, env_at_choice, train_vars, saves,
                    sampler_vars >>

\* The return from _sample_equal_skill_dist into _sample_sequences.
rollout_return ==
    /\ skill' = next_skill(skill)
    /\ episodes' = episodes + 1
    /\ pc' = "sampling"

\* One test of the rollout loop, and one pass through its body if it holds.
sample_equal_skill_dist_step ==
    /\ pc = "rollout"
    /\ IF ~rollout_continues(steps, skill)
       THEN /\ rollout_return
            /\ UNCHANGED << steps, rollout_vars >>
       ELSE \E reset_obs \in Observations, next_state \in Observations,
               d \in BOOLEAN :
               LET obs_in  == IF done THEN reset_obs ELSE next_obs
                   env_cur == IF done THEN reset_obs ELSE env_obs
               IN  /\ next_obs' = obs_in
                   /\ policy_obs' = obs_in
                   /\ env_at_choice' = env_cur
                   /\ env_obs' = next_state
                   /\ done' = d
                   /\ episode_steps' = episode_steps + 1
                   /\ steps' = [steps EXCEPT ![skill] = @ + 1]
                   /\ mem_len' = mem_append(mem_len)
                   /\ IF mem_seq_pushed(mem_len)
                      THEN /\ mem_n' = mem_commit(mem_n)
                           /\ rollout_return
                      ELSE /\ mem_n' = mem_n
                           /\ UNCHANGED << skill, episodes, pc >>
    /\ UNCHANGED << config_vars, runs, err, train_vars, saves, sampler_vars >>

\* The outer loop's test fails: print, skill_histogram, return to
\* run_training, which enters _train.
sample_sequences_exit ==
    /\ pc = "sampling"
    /\ ~sampling_continues(steps)
    /\ pc' = "training"
    /\ train_iter' = 0
    /\ episode_steps' = 0
    /\ next_obs' = NoObs
    /\ done' = FALSE
    /\ policy_obs' = NoObs
    /\ env_at_choice' = NoObs
    /\ UNCHANGED << config_vars, runs, steps, episodes, skill, err, env_obs,
                    mem_len, mem_n, learn_steps, batch_samples, optim_steps,
                    scalar_sets, warnings, fig_attempts, figures, saves,
                    sampler_vars >>

-----------------------------------------------------------------------------
(* Trainer: the training phase.                                            *)

\* Mutant: the training loop ends one iteration early.
train_loop_done_early(i) == i + 1 >= train_steps

\* for _ in range(self.train_steps): the loop is exhausted.
train_loop_done(i) == i >= train_steps

\* Mutant: the interval is tested on the number of the step, not on the
\* steps completed.
is_interval_shifted(li, s) == (s + 1) % li = 0

\* _is_interval(log_interval, steps), for log_interval # 0
is_interval(li, s) == s % li = 0

\* Mutant: the palette test is missing.
plot_mode_map_unchecked(md, ns) ==
    IF ~(md = plot_dim) THEN "none" ELSE "fig"

\* _plot_mode_map, up to the palette test: "none" (warning, return None),
\* "ValueError" (raise) or "fig" (a figure is drawn and returned: the
\* posterior samples have shape (batch_size, mode_dim) and every skill id is
\* below num_skills, so the shape assertion and the color lookup pass).
plot_mode_map(md, ns) ==
    IF ~(md = plot_dim) THEN "none"
    ELSE IF ns > PaletteSize THEN "ValueError"
    ELSE "fig"

\* _save_fig(locations=['writer'], fig=...): writer.add_figure is called with
\* whatever _plot_mode_map returned.  Given None, add_figure either raises
\* or writes an empty image, depending on the plotting library in use.
save_fig(fig, none_raises) ==
    [ attempts |-> 1,
      written  |-> IF fig = "fig" THEN 1 ELSE 0,
      err      |-> IF fig = "none" /\ none_raises THEN "add_figure" ELSE "none" ]

\* The logging block of _calc_loss: what it adds to the effect counters and
\* the exception it raises, if any.
calc_loss(none_raises) ==
    IF log_interval = 0
    THEN [ scalars |-> 0, warns |-> 0, attempts |-> 0, written |-> 0,
           err |-> "ZeroDivisionError" ]
    ELSE IF ~is_interval(log_interval, learn_steps)
    THEN [ scalars |-> 0, warns |-> 0, attempts |-> 0, written |-> 0,
           err |-> "none" ]
    ELSE LET fig == plot_mode_map(mode_dim, num_skills)
             sv  == save_fig(fig, none_raises)
         IN  IF fig = "ValueError"
             THEN [ scalars |-> 1, warns |-> 0, attempts |-> 0,
                    written |-> 0, err |-> "ValueError" ]
             ELSE [ scalars |-> 1,
                    warns |-> IF fig = "none" THEN 1 ELSE 0,
                    attempts |-> sv.attempts,
                    written |-> sv.written,
                    err |-> sv.err ]

\* One iteration of _train: _learn_step.
learn_step ==
    /\ pc = "training"
    /\ ~train_loop_done(train_iter)
    /\ IF ~mem_can_sample(mem_n)
       THEN /\ pc' = "error"
            /\ err' = "sample_sequence"
            /\ UNCHANGED train_vars
       ELSE \E none_raises \in BOOLEAN :
               LET r == calc_loss(none_raises)
               IN  /\ batch_samples' = batch_samples + 1
                   /\ scalar_sets' = scalar_sets + r.scalars
                   /\ warnings' = warnings + r.warns
                   /\ fig_attempts' = fig_attempts + r.attempts
                   /\ figures' = figures + r.written
                   /\ IF r.err # "none"
                      THEN /\ pc' = "error"
                           /\ err' = r.err
                           /\ UNCHANGED << optim_steps, learn_steps,
                                           train_iter >>
                      ELSE /\ optim_steps' = optim_steps + 1
                           /\ learn_steps' = learn_steps + 1
                           /\ train_iter' = train_iter + 1
                           /\ UNCHANGED << pc, err >>
    /\ UNCHANGED << config_vars, runs, steps, episodes, skill, rollout_vars,
                    saves, sampler_vars >>

\* _train returns; _save_models.
save_models ==
    /\ pc = "training"
    /\ train_loop_done(train_iter)
    /\ saves' = saves + 1
    /\ pc' = "saved"
    /\ UNCHANGED << config_vars, runs, steps, episodes, skill, err,
                    rollout_vars, train_vars, sampler_vars >>

Next ==
    \/ run_training
    \/ sample_equal_skill_dist_enter
    \/ sample_equal_skill_dist_step
    \/ sample_sequences_exit
    \/ learn_step
    \/ save_models

Spec == Init /\ [][Next]_vars

\* The trainer is one sequential process: whatever step is possible is taken.
FairSpec == Spec /\ WF_vars(Next)

-----------------------------------------------------------------------------
(* Action sampler (ActionSamplerNoSSM).                                    *)

Devices == {"cpu", "cuda"}

\* The mode tensors a caller passes, or sample_mode_prior draws.
Modes == [val : 1 .. NumModes, dev : Devices]

StateReps == 1 .. NumStateReps

\* tensor.to(device)
to(tensor, device) == [tensor EXCEPT !.dev = device]

\* self.device = device if torch.cuda.is_available() else 'cpu'
sampler_device(device, cuda_available) ==
    IF cuda_available THEN device ELSE "cpu"

\* mode_model.action_decoder(state_rep_seq, mode_sample)['samples']: the
\* action decoded from a mode and a state representation.
action_decoder(state_rep_seq, mode_sample) ==
    [kind |-> "action", mode |-> mode_sample, rep |-> state_rep_seq]

\* Mutant: _set_mode leaves the pending slot alone.
set_mode_current_only(slots, mode) ==
    [slots EXCEPT !.mode = to(mode, s_device)]

\* _set_mode(mode): the two slots after it.
set_mode(slots, mode) ==
    [slots EXCEPT !.mode = to(mode, s_device), !.next = to(mode, s_device)]

\* _get_action(mode, state_rep), called with the positional arguments args:
\* a call that does not bind both parameters raises TypeError.
get_action(args) ==
    IF Len(args) # 2
    THEN [kind |-> "TypeError", mode |-> None, rep |-> 0]
    ELSE action_decoder(args[2], args[1])

\* __call__(state_rep): the arguments it passes to _get_action.
call_args(state_rep) == << state_rep >>

TrainerIdle ==
    /\ num_skills = 1
    /\ min_steps_sampling = 0
    /\ num_sequences = 1
    /\ train_steps = 0
    /\ mode_dim = plot_dim
    /\ log_interval = 1
    /\ memory_size = 1
    /\ pc = "idle"
    /\ runs = 0
    /\ steps = [s \in Skills |-> 0]
    /\ learn_steps = 0
    /\ episodes = 0
    /\ skill = 0
    /\ episode_steps = 0
    /\ next_obs = NoObs
    /\ done = FALSE
    /\ train_iter = 0
    /\ err = "none"
    /\ env_obs = NoObs
    /\ mem_len = 0
    /\ mem_n = 0
    /\ policy_obs = NoObs
    /\ env_at_choice = NoObs
    /\ batch_samples = 0
    /\ optim_steps = 0
    /\ scalar_sets = 0
    /\ warnings = 0
    /\ fig_attempts = 0
    /\ figures = 0
    /\ saves = 0

\* __init__(mode_model, device)
SamplerInit ==
    /\ TrainerIdle
    /\ \E device \in Devices, cuda_available \in BOOLEAN :
          s_device = sampler_device(device, cuda_available)
    /\ s_mode = None
    /\ s_mode_next = None
    /\ s_op = "init"
    /\ s_requested = None
    /\ s_state_rep = 0
    /\ s_result = NoResult

\* reset(mode=None): the mode is the one given, or a sample of the prior.
reset ==
    \E mode \in Modes :
       LET slots == set_mode([mode |-> s_mode, next |-> s_mode_next], mode)
       IN  /\ s_mode' = slots.mode
           /\ s_mode_next' = slots.next
           /\ s_requested' = mode
           /\ s_op' = "reset"
           /\ UNCHANGED << s_device, s_state_rep, s_result, trainer_vars >>

\* set_mode_next(mode)
set_mode_next ==
    \E mode \in Modes :
       /\ s_mode_next' = to(mode, s_device)
       /\ s_requested' = mode
       /\ s_op' = "set_mode_next"
       /\ UNCHANGED << s_device, s_mode, s_state_rep, s_result,
                       trainer_vars >>

\* update_mode_to_next()
update_mode_to_next ==
    /\ s_mode' = s_mode_next
    /\ s_op' = "update_mode_to_next"
    /\ UNCHANGED << s_device, s_mode_next, s_requested, s_state_rep,
                    s_result, trainer_vars >>

\* __call__(state_rep)
call ==
    \E state_rep \in StateReps :
       /\ s_state_rep' = state_rep
       /\ s_result' = get_action(call_args(state_rep))
       /\ s_op' = "call"
       /\ UNCHANGED << s_device, s_mode, s_mode_next, s_requested,
                       trainer_vars >>

SamplerNext ==
    \/ reset
    \/ set_mode_next
    \/ update_mode_to_next
    \/ call

SamplerSpec == SamplerInit /\ [][SamplerNext]_vars

-----------------------------------------------------------------------------
(* Properties of the sampling phase.                                       *)

\* The trainer is at a pause point of _sample_sequences or past it: not
\* inside a rollout.
AtPausePoint == pc \in {"sampling", "training", "saved", "error"}

SamplingOver == pc \in {"training", "saved", "error"}

\* C1: at every pause point of _sample_sequences (before the first rollout,
\* between two rollouts, at and after the exit of the sampling phase) the
\* largest and the smallest per-skill step counter differ by at most the
\* number of steps of one rollout segment.
C1_RoundRobinFairness ==
    AtPausePoint => np_max(steps) - np_min(steps) <= num_sequences

\* C1 witness: between two rollouts of a later round, with several skills,
\* the counters differ by exactly one rollout segment.
C1_Witness ==
    /\ pc = "sampling"
    /\ num_skills >= 2
    /\ np_min(steps) > 0
    /\ np_max(steps) - np_min(steps) = num_sequences

\* C2: a rollout for skill s stops once s's counter has caught up: with
\* two or more skills it takes no further step while s's counter is strictly
\* greater than every other skill's counter; and when the rollout returns,
\* _sample_sequences advances to skill (s + 1) mod num_skills.
C2_CatchUpRule ==
    [][ /\ ( /\ pc = "rollout"
             /\ num_skills >= 2
             /\ \A t \in Skills \ {skill} : steps[skill] > steps[t] )
           => steps' = steps
        /\ (pc = "rollout" /\ pc' = "sampling")
           => skill' = (skill + 1) % num_skills ]_vars

\* C3: the sampling phase terminates, and it terminates once the sum of the
\* counters reaches min_steps_sampling: after it the sum is at least
\* min_steps_sampling and exceeds it by less than one rollout's length, and
\* no rollout is started while the sum is already at least
\* min_steps_sampling.
C3_SamplingTerminates ==
    /\ [](SamplingOver =>
            /\ np_sum(steps) >= min_steps_sampling
            /\ np_sum(steps) - min_steps_sampling < num_sequences)
    /\ [][ (pc = "sampling" /\ pc' = "rollout")
              => np_sum(steps) < min_steps_sampling ]_vars
    /\ <>SamplingOver

\* C3 witness: the sampling phase of the first run has ended with the sum
\* of the counters beyond a positive min_steps_sampling.
C3_Witness ==
    /\ pc = "training"
    /\ runs = 1
    /\ min_steps_sampling > 0
    /\ np_sum(steps) > min_steps_sampling

\* C10: the observation handed to the skill policy for a step of a rollout
\* is the environment's current observation: the reset observation for the
\* first step and for the step after a step that reported done, and
\* otherwise the state the preceding env.step returned.
C10_PolicySeesCurrentObservation ==
    (pc \in {"rollout", "sampling"} /\ policy_obs # NoObs)
       => policy_obs = env_at_choice

-----------------------------------------------------------------------------
(* Properties of the trainer's phases and of the training loop.            *)

PhaseOrder ==
    { << "init", "sampling" >>, << "sampling", "rollout" >>,
      << "rollout", "rollout" >>, << "rollout", "sampling" >>,
      << "sampling", "training" >>, << "training", "training" >>,
      << "training", "error" >>, << "training", "saved" >> }

\* C4, as claimed: the phases follow Init -> Sampling -> Training -> Saved
\* with no re-entry: a learn step happens only after the sampling phase has
\* finished, the model is saved only when exactly train_steps learn steps
\* have completed, and once the model has been saved the trainer is inert:
\* no rollout step, learn step or save occurs in a later invocation of
\* run_training.
C4_LinearNoReentry ==
    [][ /\ learn_steps' # learn_steps
              => pc = "training" /\ ~sampling_continues(steps)
        /\ saves' # saves => learn_steps = train_steps
        /\ saves >= 1 => /\ steps' = steps
                         /\ learn_steps' = learn_steps
                         /\ saves' = saves ]_vars

\* C4, amended: within one invocation of run_training the phases are
\* linear: a learn step happens only in the training phase, after the
\* sampling loop's test has failed, and the model is saved only when exactly
\* train_steps learn steps of this invocation have completed.  A later
\* invocation re-enters from Saved: it takes no rollout step, but it trains
\* and saves again.
C4_LinearWithinOneRun ==
    [][ /\ << pc, pc' >> \in PhaseOrder \cup { << "saved", "sampling" >> }
        /\ learn_steps' # learn_steps
              => pc = "training" /\ ~sampling_continues(steps)
        /\ saves' # saves
              => /\ train_iter = train_steps
                 /\ learn_steps = runs * train_steps
                 /\ saves' = runs
        /\ saves >= 1 => steps' = steps ]_vars

\* C4 witness: a second invocation of run_training has trained and saved
\* again.
C4_Witness ==
    /\ pc = "saved"
    /\ saves = 2
    /\ train_steps >= 1
    /\ learn_steps = 2 * train_steps

\* C7: with mode_dim # 2, every logging step warns and produces no figure,
\* no figure write is attempted (the figure-saving step is skipped), and no
\* learn step fails because of the missing figure.
C7_PlotSkippedWhenNotPlottable ==
    mode_dim # plot_dim =>
        /\ warnings = scalar_sets
        /\ figures = 0
        /\ fig_attempts = 0
        /\ err # "add_figure"

\* C8, as claimed: with more skills than palette colors the run ends in
\* the error state before any environment step is sampled and before any
\* optimizer step is taken, whatever mode_dim and log_interval are, and it
\* never reaches Saved.
C8_PaletteErrorBeforeAnyStep ==
    num_skills > PaletteSize =>
        /\ np_sum(steps) = 0
        /\ optim_steps = 0
        /\ saves = 0

\* C8, amended: the palette error is raised only with mode_dim = 2, and in
\* the first learn step: after the sampling phase has completed, before any
\* figure is written and before any optimizer step.  With num_skills > 10
\* and mode_dim = 2 no optimizer step is ever taken, and for
\* train_steps >= 1 the run never reaches Saved.
C8_PaletteErrorInFirstLearnStep ==
    /\ err = "ValueError" =>
          /\ num_skills > PaletteSize
          /\ mode_dim = plot_dim
          /\ pc = "error"
          /\ ~sampling_continues(steps)
          /\ train_iter = 0
          /\ learn_steps = 0
          /\ fig_attempts = 0
    /\ (num_skills > PaletteSize /\ mode_dim = plot_dim) =>
          /\ optim_steps = 0
          /\ learn_steps = 0
          /\ train_steps >= 1 => saves = 0 /\ pc # "saved"

\* C8 witness: the palette error has been raised after environment steps
\* were sampled.
C8_Witness ==
    /\ pc = "error"
    /\ err = "ValueError"
    /\ np_sum(steps) > 0
    /\ batch_samples = 1

Ceil(a, b) == (a + b - 1) \div b

-----------------------------------------------------------------------------
(* Properties of the action sampler.                                       *)

\* The pending mode a caller expects: the mode most recently handed to
\* reset or set_mode_next, on the sampler's device.
ExpectedPending(requested) ==
    IF requested = None THEN None ELSE to(requested, s_device)

\* C5: set_mode_next changes only the pending slot; the current mode
\* changes only in reset and update_mode_to_next; right after
\* update_mode_to_next the current mode equals the pending mode, which is
\* the most recently staged mode, or the mode of the last reset if nothing
\* was staged since; reset sets both slots to the same mode.
C5_TwoPhaseCommit ==
    [][ /\ s_op' = "set_mode_next" =>
              /\ s_mode' = s_mode
              /\ s_mode_next' = ExpectedPending(s_requested')
        /\ s_mode' # s_mode => s_op' \in {"reset", "update_mode_to_next"}
        /\ s_op' = "update_mode_to_next" =>
              /\ s_mode' = s_mode_next'
              /\ s_mode_next' = ExpectedPending(s_requested')
        /\ s_op' = "reset" =>
              /\ s_mode' = ExpectedPending(s_requested')
              /\ s_mode_next' = s_mode' ]_vars

\* C5 witness: a commit has made a mode current that was handed over on
\* another device than the sampler's.
C5_Witness ==
    /\ s_op = "update_mode_to_next"
    /\ s_requested # None
    /\ s_requested.dev # s_device
    /\ s_mode = to(s_requested, s_device)

\* C6: after a reset, __call__(state_rep) returns the action that
\* action_decoder produces for (current mode, state_rep).
C6_CallDecodesCurrentMode ==
    (s_op = "call" /\ s_mode # None)
       => s_result = action_decoder(s_state_rep, s_mode)

=============================================================================
